---- MODULE Spec2Model ----
(***************************************************************************)
(* Vendor checkout settlement of farmers-backend: submit_checkout          *)
(* (src/api/checkout.py) writing vendor_checkouts, token_deltas and        *)
(* vendor_checkout_tokens inside one database transaction, and get_report  *)
(* (src/api/reporting.py) reading them back through one SQL statement.     *)
(*                                                                         *)
(* The relational store is modelled by its committed tables (sets of rows) *)
(* and, per request being served, the rows its open transaction has        *)
(* written but not yet committed.  Money is counted in integral units.     *)
(***************************************************************************)
EXTENDS Integers, Sequences, FiniteSets, TLC

\* Number of submit_checkout requests a behaviour receives.
MaxSubmissions == 2

(***************************************************************************)
(* Directory tables the settlement code only reads.                        *)
(***************************************************************************)
markets ==
    { [id |-> 1, manager_id |-> 1],
      [id |-> 2, manager_id |-> 1],
      [id |-> 3, manager_id |-> 2],
      [id |-> 4, manager_id |-> 1] }

vendors ==
    { [id |-> 1, business_name |-> "Acme", type |-> "PRODUCER"],
      [id |-> 2, business_name |-> "Bees", type |-> "ANCILLARY"] }

market_vendors ==
    { [id |-> 1, vendor_id |-> 1, market_id |-> 1],
      [id |-> 2, vendor_id |-> 1, market_id |-> 2],
      [id |-> 3, vendor_id |-> 2, market_id |-> 1],
      [id |-> 4, vendor_id |-> 2, market_id |-> 3],
      [id |-> 5, vendor_id |-> 2, market_id |-> 4] }

market_tokens ==
    { [id |-> 1, market_id |-> 1, token_type |-> "EBT", per_dollar_value |-> 1],
      [id |-> 2, market_id |-> 2, token_type |-> "ATM", per_dollar_value |-> 1],
      [id |-> 3, market_id |-> 1, token_type |-> "MARKET_MATCH", per_dollar_value |-> 2],
      [id |-> 4, market_id |-> 2, token_type |-> "EBT", per_dollar_value |-> 2],
      [id |-> 5, market_id |-> 3, token_type |-> "EBT", per_dollar_value |-> 1] }

\* TokenTransactorType.Vendor.value
TransactorVendor == "VENDOR"

(***************************************************************************)
(* Requests.                                                               *)
(***************************************************************************)
\* PaidToken
PaidToken(market_token_id, count) ==
    [market_token_id |-> market_token_id, count |-> count]

\* tokens: Optional[list[PaidToken]] = None
NoTokens == [is_none |-> TRUE, items |-> << >>]

SomeTokens(items) == [is_none |-> FALSE, items |-> items]

\* CheckoutSubmit: five typed fields, no validator on any value.
CheckoutSubmit(mv, d, g, f, t) ==
    [market_vendor_id |-> mv, market_date |-> d, reported_gross |-> g,
     fees_paid |-> f, tokens |-> t]

NoRequest == CheckoutSubmit(0, 0, 0, 0, NoTokens)

\* Token lists the submissions are drawn from: absent, empty, one token of
\* the vendor's market, the same token twice, a token of another market, an
\* unknown token, and a batch whose second entry is unknown.
TokenLists ==
    { NoTokens,
      SomeTokens(<< >>),
      SomeTokens(<< PaidToken(1, 2) >>),
      SomeTokens(<< PaidToken(1, -1), PaidToken(1, 2) >>),
      SomeTokens(<< PaidToken(2, 2) >>),
      SomeTokens(<< PaidToken(9, 2) >>),
      SomeTokens(<< PaidToken(1, 2), PaidToken(9, 2) >>) }

Clients == {"c1", "c2"}

VARIABLES
    workload,                 \* the sets the requests are drawn from
    token_deltas_columns,     \* columns of token_deltas the engine reflected
    vendor_checkouts,         \* committed rows
    token_deltas,             \* committed rows
    vendor_checkout_tokens,   \* committed rows
    vendor_checkouts_id_seq,  \* next id of vendor_checkouts
    token_deltas_id_seq,      \* next id of token_deltas
    pc,                       \* per client: position inside submit_checkout
    req,                      \* per client: the request being served / last served
    tx,                       \* per client: rows written by the open transaction
    resp,                     \* per client: response to the last request
    submitted,                \* history: tokens of each committed submission
    nSubmitted,               \* requests received so far
    failed_before,            \* history, per client: a submission had failed
                              \* when the client's request was received
    report,                   \* the get_report response the last step returned
    market_fees,              \* committed rows
    fee_resp,                 \* response to the last create_fee_for_vendor_type
                              \* request and the pair the request named
    fees,                     \* the rows market_fees_cte gave last
    first_fees,               \* history: the rows market_fees_cte gave first
                              \* for market 1
    options                   \* the get_checkout_options response the last
                              \* step returned

tables == << vendor_checkouts, token_deltas, vendor_checkout_tokens >>

vars == << workload, token_deltas_columns, vendor_checkouts, token_deltas,
           vendor_checkout_tokens, vendor_checkouts_id_seq,
           token_deltas_id_seq, pc, req, tx, resp, submitted, nSubmitted,
           failed_before, report, market_fees, fee_resp, fees, first_fees,
           options >>

fee_vars == << market_fees, fee_resp, fees, first_fees >>

option_vars == << options >>

(***************************************************************************)
(* Helpers.                                                                *)
(***************************************************************************)
Ids(rows) == { r.id : r \in rows }

\* A transaction that has written nothing.
EmptyTx ==
    [ vendor_checkout_id |-> 0,
      token_delta_ids    |-> << >>,
      vendor_checkouts   |-> {},
      token_deltas       |-> {},
      vendor_checkout_tokens |-> {} ]

\* HTTP responses.
NoResponse == [status |-> 0, detail |-> "", exc |-> "none"]

Response(status, detail, exc) ==
    [status |-> status, detail |-> detail, exc |-> exc]

\* JSONResponse(status_code=200, ...)
Ok == Response(200, "Checkout submitted successfully", "none")

\* except DBAPIError as e: raise HTTPException(status_code=500, ...)
\* Any other exception leaves the handler and the framework answers 500.
ErrorResponse(exc) ==
    IF exc \in {"ForeignKeyViolation", "UniqueViolation", "NotNullViolation"}
    THEN Response(500, "Database error", exc)
    ELSE Response(500, "Internal Server Error", exc)

(***************************************************************************)
(* Constraints of the store.                                               *)
(***************************************************************************)
\* vendor_checkouts.market_vendor references market_vendors.id
MarketVendorExists(mv) == mv \in Ids(market_vendors)

\* token_deltas.market_token references market_tokens.id
MarketTokenExists(mt) == mt \in Ids(market_tokens)

\* one vendor_checkouts row per (market_vendor, market_date)
SameSettlement(r, mv, d) == r.market_vendor = mv /\ r.market_date = d

\* columns written by the token_deltas insert of submit_checkout
InsertedColumns == {"market_token", "transactor", "count"}

\* a token_deltas row as the insert writes it
TokenDeltaRow(id, token) ==
    [id |-> id, market_token |-> token.market_token_id,
     transactor |-> TransactorVendor, count |-> token.count]

(***************************************************************************)
(* get_report                                                              *)
(***************************************************************************)
\* market_date: datetime.date | None = None
NoDate == 0

\* market_id 0 selects every market of the manager
AllMarkets == 0

SortOptions == {"MARKET_DATE", "BUSINESS_NAME", "GROSS", "FEES_PAID"}

SortDirections == {"ASC", "DESC"}

ReportQuery(manager, market, d, sort_by, sort_direction) ==
    [market_manager_id |-> manager, market_id |-> market, market_date |-> d,
     sort_by |-> sort_by, sort_direction |-> sort_direction]

\* The requests of the settlement runs.
SubmitWorkload ==
    [ market_vendor_ids |-> {1, 2, 9},
      market_dates      |-> {1},
      grosses           |-> << 50, -5 >>,
      fees              |-> {3},
      token_lists       |-> TokenLists,
      queries           |-> { ReportQuery(1, AllMarkets, NoDate,
                                          "MARKET_DATE", "DESC") } ]

RECURSIVE SumOver(_, _)
\* SUM(f) over the rows S; 0 stands for the COALESCE of an empty sum
SumOver(f, S) ==
    IF S = {} THEN 0
    ELSE LET x == CHOOSE x \in S : TRUE
         IN  f[x] + SumOver(f, S \ {x})

\* MAX over a non-empty set of integers
Maximum(S) == CHOOSE x \in S : \A y \in S : y <= x

\* text ordering of vendors.business_name
Collation(name) ==
    CASE name = "Acme" -> 1
      [] name = "Bees" -> 2
      [] OTHER -> 0

\* Variant of JoinedDeltas: the deltas of the token, of any checkout.
JoinedDeltasOfToken(vc, mt) ==
    { td \in token_deltas : td.market_token = mt.id }

\* token_deltas rows joined to checkout vc for market token mt:
\* vct.vendor_checkout = vc.id, vct.token_delta = td.id, td.market_token = mt.id
JoinedDeltas(vc, mt) ==
    { td \in token_deltas :
        /\ td.market_token = mt.id
        /\ \E l \in vendor_checkout_tokens :
              l.vendor_checkout = vc.id /\ l.token_delta = td.id }

\* WITH market_token_deltas AS (...)
market_token_deltas ==
    LET joined == { p \in vendor_checkouts \X market_tokens :
                      \E mv \in market_vendors :
                         /\ p[1].market_vendor = mv.id
                         /\ p[2].market_id = mv.market_id }
    IN  { [vendor_checkout_id |-> p[1].id,
           token_id |-> p[2].id,
           token_type |-> p[2].token_type,
           per_dollar_value |-> p[2].per_dollar_value,
           token_delta |->
              SumOver([td \in JoinedDeltas(p[1], p[2]) |-> td.delta],
                      JoinedDeltas(p[1], p[2]))]
          : p \in joined }

\* Variant of Selected: the manager of the market is not compared.
SelectedOfAnyManager(q, vc, mv, m) ==
    /\ q.market_id # AllMarkets => mv.market_id = q.market_id
    /\ q.market_date # NoDate => vc.market_date = q.market_date

\* WHERE m.manager_id = :market_manager_id {where_clause}
Selected(q, vc, mv, m) ==
    /\ m.manager_id = q.market_manager_id
    /\ q.market_id # AllMarkets => mv.market_id = q.market_id
    /\ q.market_date # NoDate => vc.market_date = q.market_date

\* checkouts_cte AS (...): one row per checkout and market_token_deltas row
checkouts_cte(q) ==
    LET joined == { p \in vendor_checkouts \X market_vendors \X vendors
                            \X markets \X market_token_deltas :
                      /\ p[1].market_vendor = p[2].id
                      /\ p[2].vendor_id = p[3].id
                      /\ p[2].market_id = p[4].id
                      /\ p[5].vendor_checkout_id = p[1].id
                      /\ Selected(q, p[1], p[2], p[4]) }
    IN  { [checkout_id |-> p[1].id,
           business_name |-> p[3].business_name,
           vendor_type |-> p[3].type,
           gross |-> p[1].gross,
           fees_paid |-> p[1].fees_paid,
           market_date |-> p[1].market_date,
           token_id |-> p[5].token_id,
           token_type |-> p[5].token_type,
           token_delta |-> p[5].token_delta,
           per_dollar_value |-> p[5].per_dollar_value]
          : p \in joined }

\* JSON_BUILD_OBJECT('type', ..., 'count', ..., 'per_dollar_value', ...)
TokenObject(type, count, per_dollar_value) ==
    [type |-> type, count |-> count, per_dollar_value |-> per_dollar_value]

\* aggregated_totals AS (... GROUP BY token_type, per_dollar_value)
aggregated_totals(q) ==
    LET cte == checkouts_cte(q)
        keys == { << r.token_type, r.per_dollar_value >> : r \in cte }
        grp(k) == { r \in cte : r.token_type = k[1] /\ r.per_dollar_value = k[2] }
    IN  { [token_type |-> k[1],
           per_dollar_value |-> k[2],
           total_token_delta |-> SumOver([r \in grp(k) |-> r.token_delta], grp(k)),
           total_fees_paid |-> SumOver([r \in grp(k) |-> r.fees_paid], grp(k))]
          : k \in keys }

\* totals_data AS (...)
totals_data(q) ==
    LET agg == aggregated_totals(q)
    IN  [fees_paid |-> IF agg = {} THEN 0
                       ELSE Maximum({ a.total_fees_paid : a \in agg }),
         tokens |-> { TokenObject(a.token_type, a.total_token_delta,
                                  a.per_dollar_value) : a \in agg }]

\* final_data AS (... GROUP BY business_name, vendor_type, gross, fees_paid,
\* market_date): the json_agg of a group is a bag of token objects
final_data(q) ==
    LET cte == checkouts_cte(q)
        key(r) == << r.business_name, r.vendor_type, r.gross, r.fees_paid,
                     r.market_date >>
        keys == { key(r) : r \in cte }
        grp(k) == { r \in cte : key(r) = k }
        obj(r) == TokenObject(r.token_type, r.token_delta, r.per_dollar_value)
    IN  { [business_name |-> k[1],
           vendor_type |-> k[2],
           gross |-> k[3],
           fees_paid |-> k[4],
           market_date |-> k[5],
           tokens |-> [o \in { obj(r) : r \in grp(k) } |->
                          Cardinality({ r \in grp(k) : obj(r) = o })]]
          : k \in keys }

\* the column ORDER BY {sort_by} names
SortKey(row, sort_by) ==
    CASE sort_by = "MARKET_DATE" -> row.market_date
      [] sort_by = "BUSINESS_NAME" -> Collation(row.business_name)
      [] sort_by = "GROSS" -> row.gross
      [] sort_by = "FEES_PAID" -> row.fees_paid

\* Variant of Ordered: the direction is not used, rows ascend.
OrderedAscending(s, sort_by, sort_direction) ==
    \A i, j \in DOMAIN s :
        i < j => SortKey(s[i], sort_by) <= SortKey(s[j], sort_by)

\* ORDER BY {sort_by} {sort_direction}: rows with equal keys come in an
\* order the statement does not fix
Ordered(s, sort_by, sort_direction) ==
    \A i, j \in DOMAIN s :
        i < j => IF sort_direction = "ASC"
                 THEN SortKey(s[i], sort_by) <= SortKey(s[j], sort_by)
                 ELSE SortKey(s[i], sort_by) >= SortKey(s[j], sort_by)

Orderings(rows, sort_by, sort_direction) ==
    { s \in [1..Cardinality(rows) -> rows] :
        /\ \A i, j \in DOMAIN s : i # j => s[i] # s[j]
        /\ Ordered(s, sort_by, sort_direction) }

NoQuery == ReportQuery(0, AllMarkets, NoDate, "MARKET_DATE", "DESC")

\* report holds the query served by the last step and the response to it
NoReport == [query |-> NoQuery, status |-> 0, reports |-> << >>,
             totals |-> [fees_paid |-> 0, tokens |-> {}]]

\* except DBAPIError as error: raise(HTTPException(status_code=500, ...))
ReportError(q) == [query |-> q, status |-> 500, reports |-> << >>,
                   totals |-> [fees_paid |-> 0, tokens |-> {}]]

\* The responses get_report can give to query q on the committed tables.
get_report(q) ==
    IF ~ ("delta" \in token_deltas_columns)
    THEN { ReportError(q) }   \* td.delta names no column of token_deltas
    ELSE { [query |-> q, status |-> 200, reports |-> s,
            totals |-> totals_data(q)]
           : s \in Orderings(final_data(q), q.sort_by, q.sort_direction) }

(***************************************************************************)
(* Market fees: create_fee_for_vendor_type and market_fees_cte.  Rates are *)
(* decimals, counted in hundredths (1000 is 10.00, 5 is 0.05).             *)
(***************************************************************************)
\* rate_2: Optional[Decimal] = None, NULL in market_fees
Absent == [is_null |-> TRUE, value |-> 0]

Present(v) == [is_null |-> FALSE, value |-> v]

\* COALESCE(x, 0)
COALESCE0(x) == IF x.is_null THEN 0 ELSE x.value

\* FeeType
FeeTypes ==
    {"PERCENT_GROSS", "FLAT_FEE", "FLAT_PERCENT_COMBO", "MAX_OF_EITHER",
     "GOV_FEE"}

\* Create_FeeForVendorType, and the market_fees row made of it
Create_FeeForVendorType(market_id, vendor_type, fee_type, rate, rate_2) ==
    [market_id |-> market_id, vendor_type |-> vendor_type,
     fee_type |-> fee_type, rate |-> rate, rate_2 |-> rate_2]

\* The bodies of the create_fee_for_vendor_type requests: for producers of
\* market 1 every fee type, rates 10.00, 0.05 and -1.00, rate_2 absent or
\* 0.05; for non-producers of market 1 a FLAT_FEE and a GOV_FEE of 10.00;
\* and one body that names an unknown market.
FeeBodies ==
    { Create_FeeForVendorType(1, "PRODUCER", ft, r, r2) :
        ft \in FeeTypes, r \in {1000, 5, -100}, r2 \in {Absent, Present(5)} }
    \cup { Create_FeeForVendorType(1, "NON_PRODUCER", ft, 1000, r2) :
             ft \in {"FLAT_FEE", "GOV_FEE"}, r2 \in {Absent, Present(5)} }
    \cup { Create_FeeForVendorType(9, "PRODUCER", "FLAT_FEE", 1000, Absent) }

\* A market_fees row whose fee_type is none of FeeType, not written by
\* create_fee_for_vendor_type.
LegacyFee == Create_FeeForVendorType(1, "ANCILLARY", "SPONSORSHIP", 1000, Present(5))

\* market_fees.market_id references markets.id
MarketExists(id) == \E m \in markets : m.id = id

\* one market_fees row per (market_id, vendor_type)
SameFeePair(f, market_id, vendor_type) ==
    f.market_id = market_id /\ f.vendor_type = vendor_type

\* Variant of flat: a MAX_OF_EITHER rule takes its flat from rate_2.
flatOfMaxFromRate2(fee) ==
    CASE fee.fee_type \in {"FLAT_FEE", "FLAT_PERCENT_COMBO", "GOV_FEE"} -> fee.rate
      [] fee.fee_type \in {"PERCENT_GROSS", "MAX_OF_EITHER"} -> COALESCE0(fee.rate_2)
      [] OTHER -> 0

\* Variant of flat: every recognized fee type takes its flat from rate.
flatAlwaysRate(fee) ==
    CASE fee.fee_type \in FeeTypes -> fee.rate
      [] OTHER -> 0

\* CASE ... END AS flat
flat(fee) ==
    CASE fee.fee_type = "FLAT_FEE" -> fee.rate
      [] fee.fee_type = "PERCENT_GROSS" -> COALESCE0(fee.rate_2)
      [] fee.fee_type = "FLAT_PERCENT_COMBO" -> fee.rate
      [] fee.fee_type = "MAX_OF_EITHER" -> fee.rate
      [] fee.fee_type = "GOV_FEE" -> fee.rate
      [] OTHER -> 0

\* Variant of percent: a GOV_FEE rule takes its percent from rate_2.
percentOfGovFeeFromRate2(fee) ==
    CASE fee.fee_type = "PERCENT_GROSS" -> fee.rate
      [] fee.fee_type \in {"FLAT_FEE", "FLAT_PERCENT_COMBO", "MAX_OF_EITHER",
                           "GOV_FEE"} -> COALESCE0(fee.rate_2)
      [] OTHER -> 0

\* CASE ... END AS percent
percent(fee) ==
    CASE fee.fee_type = "FLAT_FEE" -> COALESCE0(fee.rate_2)
      [] fee.fee_type = "PERCENT_GROSS" -> fee.rate
      [] fee.fee_type = "FLAT_PERCENT_COMBO" -> COALESCE0(fee.rate_2)
      [] fee.fee_type = "MAX_OF_EITHER" -> COALESCE0(fee.rate_2)
      [] fee.fee_type = "GOV_FEE" -> 0
      [] OTHER -> 0

\* Variant of market_fees_cte: the flat of a row grows with the number of
\* rules of the market.
market_fees_cteCounting(market_id) ==
    LET rules == { f \in market_fees : f.market_id = market_id }
    IN  { [vendor_type |-> fee.vendor_type, fee_type |-> fee.fee_type,
           flat |-> flat(fee) + Cardinality(rules), percent |-> percent(fee)]
          : fee \in rules }

\* market_fees_cte AS (SELECT vendor_type, fee_type, flat, percent
\*                     FROM market_fees WHERE market_id = :market_id)
market_fees_cte(market_id) ==
    { [vendor_type |-> fee.vendor_type, fee_type |-> fee.fee_type,
       flat |-> flat(fee), percent |-> percent(fee)]
      : fee \in { f \in market_fees : f.market_id = market_id } }

\* The gross values a total is taken for, in whole units.
FeeGrosses == {0, 100, 200}

\* Total owed for a row of market_fees_cte and a reported gross, in
\* hundredths: flat + percent * gross, and for MAX_OF_EITHER the larger of
\* flat and percent * gross.  No statement of the repository computes it;
\* it is taken by whoever receives the rows.
TotalOwed(row, gross) ==
    IF row.fee_type = "MAX_OF_EITHER"
    THEN IF row.flat >= row.percent * gross THEN row.flat
         ELSE row.percent * gross
    ELSE row.flat + row.percent * gross

NoFeeResponse == [status |-> 0, detail |-> "", market_id |-> 0, vendor_type |-> ""]

FeeResponse(status, detail, body) ==
    [status |-> status, detail |-> detail, market_id |-> body.market_id,
     vendor_type |-> body.vendor_type]

NoFees == [market_id |-> 0, rows |-> {}]

(***************************************************************************)
(* get_checkout_options and get_market_options: the markets of a manager   *)
(* with the dates offered for checkout.  A date is a day of January 2024,   *)
(* counted from 1.                                                         *)
(***************************************************************************)
\* Number of days the checkouts of the ledger are dated on.
MaxDate == 12

\* WHERE rank <= 10
RankLimit == 10

\* markets.name; the names are in the order of the ids
MarketName(id) ==
    CASE id = 1 -> "Alder"
      [] id = 2 -> "Birch"
      [] id = 3 -> "Cedar"
      [] id = 4 -> "Dogwood"
      [] OTHER -> ""

\* market_frequencies: the days of operation; markets 2 and 4 have none
market_frequencies ==
    { [market_id |-> 1, day_of_week |-> "MONDAY"],
      [market_id |-> 1, day_of_week |-> "THURSDAY"],
      [market_id |-> 3, day_of_week |-> "FRIDAY"] }

\* datetime.date.weekday(); 1 January 2024 is a Monday
weekday(d) == (d - 1) % 7

\* DaysOfWeek.from_number(num).value
from_number(num) ==
    CASE num = 0 -> "MONDAY"
      [] num = 1 -> "TUESDAY"
      [] num = 2 -> "WEDNESDAY"
      [] num = 3 -> "THURSDAY"
      [] num = 4 -> "FRIDAY"
      [] num = 5 -> "SATURDAY"
      [] num = 6 -> "SUNDAY"

\* datetime.date.isoformat()
isoformat(d) ==
    IF d < 10 THEN "2024-01-0" \o ToString(d) ELSE "2024-01-" \o ToString(d)

\* the clock readings datetime.date.today() is drawn from: a Thursday and
\* a Friday
Todays == {11, 12}

\* SELECT DISTINCT vm.market_id, market_date FROM vendor_checkouts JOIN
\* market_vendors AS vm: the dates market_id has a checkout on
CheckoutDates(market_id) ==
    { vc.market_date :
        vc \in { c \in vendor_checkouts :
                   \E vm \in market_vendors :
                      vm.id = c.market_vendor /\ vm.market_id = market_id } }

\* DENSE_RANK() OVER (PARTITION BY vm.market_id
\*                    ORDER BY checkouts.market_date ASC)
DENSE_RANK(market_id, d) ==
    Cardinality({ e \in CheckoutDates(market_id) : e <= d })

\* date_ranks WHERE rank <= 10, the rows of one market
market_dates(market_id) ==
    { d \in CheckoutDates(market_id) : DENSE_RANK(market_id, d) <= RankLimit }

RECURSIVE Descending(_)
\* ORDER BY ... DESC of a set of integers
Descending(S) ==
    IF S = {} THEN << >>
    ELSE << Maximum(S) >> \o Descending(S \ {Maximum(S)})

\* string_agg(mf.day_of_week::TEXT, ',') split at the commas; empty when
\* the aggregate is NULL
market_days(market_id) ==
    { mf.day_of_week :
        mf \in { f \in market_frequencies : f.market_id = market_id } }

\* the body of one market: today first when today is a day of operation,
\* then the date rows other than today, latest first
market_body(market_id, today_date) ==
    LET rows == Descending(market_dates(market_id) \ {today_date})
    IN  [market_id |-> market_id,
         market_name |-> MarketName(market_id),
         market_dates |->
            (IF from_number(weekday(today_date)) \in market_days(market_id)
             THEN << isoformat(today_date) >> ELSE << >>)
            \o [i \in DOMAIN rows |-> isoformat(rows[i])]]

NoOptions == [endpoint |-> "", market_manager_id |-> 0, today |-> 0,
              status |-> 0, markets |-> << >>]

\* the response of either endpoint for a manager when the clock reads
\* today_date
market_options(endpoint, market_manager_id, today_date) ==
    LET ids == Descending({ m.id : m \in { k \in markets :
                                             k.manager_id = market_manager_id } })
        n   == Len(ids)
    IN  IF n = 0
        THEN [endpoint |-> endpoint, market_manager_id |-> market_manager_id,
              today |-> today_date, status |-> 404, markets |-> << >>]
        ELSE [endpoint |-> endpoint, market_manager_id |-> market_manager_id,
              today |-> today_date, status |-> 200,
              markets |-> [i \in 1..n |->
                             market_body(ids[n + 1 - i], today_date)]]

(***************************************************************************)
(* submit_checkout                                                         *)
(***************************************************************************)
Init ==
    /\ workload = SubmitWorkload
    /\ token_deltas_columns \in
          { {"id", "market_token", "transactor", "count"},
            {"id", "market_token", "transactor", "delta"} }
    /\ vendor_checkouts = {}
    /\ token_deltas = {}
    /\ vendor_checkout_tokens = {}
    /\ vendor_checkouts_id_seq = 1
    /\ token_deltas_id_seq = 1
    /\ pc = [c \in Clients |-> "idle"]
    /\ req = [c \in Clients |-> NoRequest]
    /\ tx = [c \in Clients |-> EmptyTx]
    /\ resp = [c \in Clients |-> NoResponse]
    /\ submitted = {}
    /\ nSubmitted = 0
    /\ failed_before = [c \in Clients |-> FALSE]
    /\ report = NoReport
    /\ market_fees = {}
    /\ fee_resp = NoFeeResponse
    /\ fees = NoFees
    /\ first_fees = NoFees
    /\ options = NoOptions

\* The request arrives and is parsed into CheckoutSubmit.
ReceiveSubmit(c) ==
    /\ report' = NoReport
    /\ UNCHANGED fee_vars
    /\ UNCHANGED option_vars
    /\ pc[c] = "idle"
    /\ nSubmitted < MaxSubmissions
    /\ \E gi \in DOMAIN workload.grosses,
          mv \in workload.market_vendor_ids, d \in workload.market_dates,
          f \in workload.fees, t \in workload.token_lists :
            req' = [req EXCEPT ![c] =
                      CheckoutSubmit(mv, d, workload.grosses[gi], f, t)]
    /\ pc' = [pc EXCEPT ![c] = "insert_vendor_checkout"]
    /\ tx' = [tx EXCEPT ![c] = EmptyTx]
    /\ resp' = [resp EXCEPT ![c] = NoResponse]
    /\ nSubmitted' = nSubmitted + 1
    /\ failed_before' = [failed_before EXCEPT ![c] =
                            \E o \in Clients : resp[o].status >= 400]
    /\ UNCHANGED << workload, token_deltas_columns, tables,
                    vendor_checkouts_id_seq, token_deltas_id_seq, submitted >>

\* Variant of RolledBack: the header was committed on its own before the
\* token statements ran (two transactions instead of one).
RolledBackKeepsHeader(c, exc) ==
    /\ pc' = [pc EXCEPT ![c] = "idle"]
    /\ tx' = [tx EXCEPT ![c] = EmptyTx]
    /\ resp' = [resp EXCEPT ![c] = ErrorResponse(exc)]
    /\ vendor_checkouts' = vendor_checkouts \cup tx[c].vendor_checkouts
    /\ UNCHANGED << token_deltas, vendor_checkout_tokens >>

\* Variant of RolledBack: the statements already executed stay in the tables
\* (a connection that commits each statement instead of one transaction).
RolledBackKeepsWrites(c, exc) ==
    /\ pc' = [pc EXCEPT ![c] = "idle"]
    /\ tx' = [tx EXCEPT ![c] = EmptyTx]
    /\ resp' = [resp EXCEPT ![c] = ErrorResponse(exc)]
    /\ vendor_checkouts' = vendor_checkouts \cup tx[c].vendor_checkouts
    /\ token_deltas' = token_deltas \cup tx[c].token_deltas
    /\ vendor_checkout_tokens' =
          vendor_checkout_tokens \cup tx[c].vendor_checkout_tokens

\* The exception leaves the with-block: the transaction is rolled back and
\* the handler answers.
RolledBack(c, exc) ==
    /\ pc' = [pc EXCEPT ![c] = "idle"]
    /\ tx' = [tx EXCEPT ![c] = EmptyTx]
    /\ resp' = [resp EXCEPT ![c] = ErrorResponse(exc)]
    /\ UNCHANGED tables

\* Rows of vendor_checkouts another open transaction has inserted for the
\* same settlement: the insert waits until that transaction ends.
HeldByOther(c, mv, d) ==
    \E o \in Clients \ {c} :
        \E r \in tx[o].vendor_checkouts : SameSettlement(r, mv, d)

\* conn.execute(vendor_checkouts.insert().values(...))
InsertVendorCheckout(c) ==
    /\ report' = NoReport
    /\ UNCHANGED fee_vars
    /\ UNCHANGED option_vars
    /\ pc[c] = "insert_vendor_checkout"
    /\ ~ HeldByOther(c, req[c].market_vendor_id, req[c].market_date)
    /\ LET r  == req[c]
           id == vendor_checkouts_id_seq
           row == [id |-> id, market_vendor |-> r.market_vendor_id,
                   market_date |-> r.market_date, gross |-> r.reported_gross,
                   fees_paid |-> r.fees_paid]
       IN  /\ vendor_checkouts_id_seq' = id + 1
           /\ IF \E o \in vendor_checkouts :
                    SameSettlement(o, r.market_vendor_id, r.market_date)
              THEN RolledBack(c, "UniqueViolation")
              ELSE IF ~ MarketVendorExists(r.market_vendor_id)
              THEN RolledBack(c, "ForeignKeyViolation")
              ELSE /\ tx' = [tx EXCEPT ![c].vendor_checkout_id = id,
                                       ![c].vendor_checkouts = {row}]
                   /\ pc' = [pc EXCEPT ![c] =
                               IF r.tokens.is_none THEN "commit"
                               ELSE "insert_token_deltas"]
                   /\ UNCHANGED << resp, tables >>
    /\ UNCHANGED << workload, token_deltas_columns, token_deltas_id_seq, req,
                    submitted, nSubmitted, failed_before >>

\* conn.execute(token_deltas.insert().returning(token_deltas.c.id), [...])
InsertTokenDeltas(c) ==
    /\ report' = NoReport
    /\ UNCHANGED fee_vars
    /\ UNCHANGED option_vars
    /\ pc[c] = "insert_token_deltas"
    /\ LET items == req[c].tokens.items
           n     == Len(items)
           first == token_deltas_id_seq
           ids   == [i \in 1..n |-> first + i - 1]
       IN  IF n = 0
           THEN \* no parameter set: INSERT ... DEFAULT VALUES
                /\ token_deltas_id_seq' = first + 1
                /\ RolledBack(c, "NotNullViolation")
           ELSE IF ~ (InsertedColumns \subseteq token_deltas_columns)
           THEN \* the statement does not compile against the table
                /\ UNCHANGED token_deltas_id_seq
                /\ RolledBack(c, "CompileError")
           ELSE /\ token_deltas_id_seq' = first + n
                /\ IF \E i \in 1..n : ~ MarketTokenExists(items[i].market_token_id)
                   THEN RolledBack(c, "ForeignKeyViolation")
                   ELSE /\ tx' = [tx EXCEPT
                                   ![c].token_delta_ids = ids,
                                   ![c].token_deltas =
                                      { TokenDeltaRow(ids[i], items[i]) : i \in 1..n }]
                        /\ pc' = [pc EXCEPT ![c] = "insert_vendor_checkout_tokens"]
                        /\ UNCHANGED << resp, tables >>
    /\ UNCHANGED << workload, token_deltas_columns, vendor_checkouts_id_seq,
                    req, submitted, nSubmitted, failed_before >>

\* Variant of CheckoutTokenRows: only the first returned id is linked.
CheckoutTokenRowsFirstOnly(vendor_checkout_id, token_delta_ids) ==
    { [vendor_checkout |-> vendor_checkout_id,
       token_delta |-> token_delta_ids[i]]
      : i \in { j \in DOMAIN token_delta_ids : j = 1 } }

\* one vendor_checkout_tokens row for each id the token_deltas insert returned
CheckoutTokenRows(vendor_checkout_id, token_delta_ids) ==
    { [vendor_checkout |-> vendor_checkout_id,
       token_delta |-> token_delta_ids[i]]
      : i \in DOMAIN token_delta_ids }

\* conn.execute(vendor_checkout_tokens.insert(), [...])
InsertVendorCheckoutTokens(c) ==
    /\ report' = NoReport
    /\ UNCHANGED fee_vars
    /\ UNCHANGED option_vars
    /\ pc[c] = "insert_vendor_checkout_tokens"
    /\ tx' = [tx EXCEPT ![c].vendor_checkout_tokens =
                CheckoutTokenRows(tx[c].vendor_checkout_id,
                                  tx[c].token_delta_ids)]
    /\ pc' = [pc EXCEPT ![c] = "commit"]
    /\ UNCHANGED << workload, token_deltas_columns, tables,
                    vendor_checkouts_id_seq, token_deltas_id_seq, req, resp,
                    submitted, nSubmitted, failed_before >>

\* Variant of Committed: the table is rewritten with the new rows.
CommittedReplacing(rows, written) == written

\* Rows of a table after a transaction that inserted `written` commits.
Committed(rows, written) == rows \cup written

\* The with-block ends without exception: commit, then the 200 response.
Commit(c) ==
    /\ report' = NoReport
    /\ UNCHANGED fee_vars
    /\ UNCHANGED option_vars
    /\ pc[c] = "commit"
    /\ vendor_checkouts' = Committed(vendor_checkouts, tx[c].vendor_checkouts)
    /\ token_deltas' = Committed(token_deltas, tx[c].token_deltas)
    /\ vendor_checkout_tokens' =
          Committed(vendor_checkout_tokens, tx[c].vendor_checkout_tokens)
    /\ submitted' = submitted \cup
          { [vendor_checkout |-> tx[c].vendor_checkout_id,
             tokens |-> req[c].tokens.items] }
    /\ pc' = [pc EXCEPT ![c] = "idle"]
    /\ tx' = [tx EXCEPT ![c] = EmptyTx]
    /\ resp' = [resp EXCEPT ![c] = Ok]
    /\ UNCHANGED << workload, token_deltas_columns, vendor_checkouts_id_seq,
                    token_deltas_id_seq, req, nSubmitted, failed_before >>

\* Variant of GetReport: serving the report consumes the link rows.
GetReportConsumingLinks ==
    /\ \E q \in workload.queries : report' \in get_report(q)
    /\ vendor_checkout_tokens' = {}
    /\ UNCHANGED fee_vars
    /\ UNCHANGED option_vars
    /\ UNCHANGED << workload, token_deltas_columns, vendor_checkouts,
                    token_deltas, vendor_checkouts_id_seq,
                    token_deltas_id_seq, pc, req, tx, resp, submitted,
                    nSubmitted, failed_before >>

\* One get_report request, served by one statement on the committed tables.
GetReport ==
    /\ \E q \in workload.queries : report' \in get_report(q)
    /\ UNCHANGED fee_vars
    /\ UNCHANGED option_vars
    /\ UNCHANGED << workload, token_deltas_columns, tables,
                    vendor_checkouts_id_seq, token_deltas_id_seq, pc, req,
                    tx, resp, submitted, nSubmitted, failed_before >>

Next ==
    \/ \E c \in Clients :
        \/ ReceiveSubmit(c)
        \/ InsertVendorCheckout(c)
        \/ InsertTokenDeltas(c)
        \/ InsertVendorCheckoutTokens(c)
        \/ Commit(c)
    \/ GetReport

Spec == Init /\ [][Next]_vars

(***************************************************************************)
(* get_report as a function of the tables: the statement is evaluated on   *)
(* every ledger of at most MaxLedger settlements whose token_deltas carry  *)
(* the delta column the statement reads.                                   *)
(***************************************************************************)
\* Number of vendor_checkouts rows of a ledger.
MaxLedger == 3

\* A settlement as the tables hold it: the vendor_checkouts row and the
\* (market_token, delta) pairs of the token_deltas rows linked to it.
Settlement(mv, d, g, f, deltas) ==
    [market_vendor |-> mv, market_date |-> d, gross |-> g, fees_paid |-> f,
     deltas |-> deltas]

\* The settlements the ledgers are made of: Acme in market 1 with two EBT
\* deltas, Acme in market 2 with the same gross, fees and date, Bees in
\* market 1, Bees in the market of manager 2, Bees in the market that has
\* no token, and Acme in market 2 on the second date with a delta of a
\* token of market 1.
Settlements ==
    << Settlement(1, 1, 50, 3, << << 1, 2 >>, << 1, -1 >> >>),
       Settlement(2, 1, 50, 3, << << 4, 3 >> >>),
       Settlement(3, 1, 200, 7, << << 3, 2 >> >>),
       Settlement(4, 1, 50, 7, << << 5, 2 >> >>),
       Settlement(5, 2, 200, 3, << >>),
       Settlement(2, 2, 75, 7, << << 1, 2 >> >>) >>

\* Sequences of settlements in insertion order, one per
\* (market_vendor, market_date).
Ledgers ==
    UNION { { L \in [1..n -> 1..Len(Settlements)] :
                \A i, j \in 1..n :
                    i # j => ~ SameSettlement(Settlements[L[i]],
                                              Settlements[L[j]].market_vendor,
                                              Settlements[L[j]].market_date) }
            : n \in 0..MaxLedger }

RECURSIVE DeltasBefore(_, _)
\* number of token_deltas rows of the first i - 1 settlements of ledger L
DeltasBefore(L, i) ==
    IF i <= 1 THEN 0
    ELSE DeltasBefore(L, i - 1) + Len(Settlements[L[i - 1]].deltas)

LedgerCheckouts(L) ==
    { [id |-> i, market_vendor |-> Settlements[L[i]].market_vendor,
       market_date |-> Settlements[L[i]].market_date,
       gross |-> Settlements[L[i]].gross,
       fees_paid |-> Settlements[L[i]].fees_paid] : i \in DOMAIN L }

LedgerDeltas(L) ==
    UNION { { [id |-> DeltasBefore(L, i) + k,
               market_token |-> Settlements[L[i]].deltas[k][1],
               transactor |-> TransactorVendor,
               delta |-> Settlements[L[i]].deltas[k][2]]
              : k \in DOMAIN Settlements[L[i]].deltas } : i \in DOMAIN L }

LedgerLinks(L) ==
    UNION { CheckoutTokenRows(i,
               [k \in DOMAIN Settlements[L[i]].deltas |-> DeltasBefore(L, i) + k])
            : i \in DOMAIN L }

\* The report requests: for manager 1 every sort key and direction without
\* filters and, for one sort order, the market filter, the date filter and
\* both; for manager 2 no filter and a market the manager does not manage.
ReportQueries ==
    { ReportQuery(1, AllMarkets, NoDate, sb, sd) :
        sb \in SortOptions, sd \in SortDirections }
    \cup { ReportQuery(1, 1, NoDate, "GROSS", "DESC"),
           ReportQuery(1, AllMarkets, 1, "GROSS", "DESC"),
           ReportQuery(1, 1, 1, "GROSS", "DESC"),
           ReportQuery(2, AllMarkets, NoDate, "GROSS", "DESC"),
           ReportQuery(2, 1, NoDate, "GROSS", "DESC") }

ReportWorkload ==
    [ market_vendor_ids |-> {},
      market_dates      |-> {},
      grosses           |-> << >>,
      fees              |-> {},
      token_lists       |-> {},
      queries           |-> ReportQueries ]

InitReport ==
    /\ workload = ReportWorkload
    /\ token_deltas_columns = {"id", "market_token", "transactor", "delta"}
    /\ \E L \in Ledgers :
          /\ vendor_checkouts = LedgerCheckouts(L)
          /\ token_deltas = LedgerDeltas(L)
          /\ vendor_checkout_tokens = LedgerLinks(L)
          /\ vendor_checkouts_id_seq = Len(L) + 1
          /\ token_deltas_id_seq = DeltasBefore(L, Len(L) + 1) + 1
    /\ pc = [c \in Clients |-> "idle"]
    /\ req = [c \in Clients |-> NoRequest]
    /\ tx = [c \in Clients |-> EmptyTx]
    /\ resp = [c \in Clients |-> NoResponse]
    /\ submitted = {}
    /\ nSubmitted = 0
    /\ failed_before = [c \in Clients |-> FALSE]
    /\ report = NoReport
    /\ market_fees = {}
    /\ fee_resp = NoFeeResponse
    /\ fees = NoFees
    /\ first_fees = NoFees
    /\ options = NoOptions

NextReport == GetReport

SpecReport == InitReport /\ [][NextReport]_vars

(***************************************************************************)
(* The fee rules: requests that store them and market_fees_cte applied to  *)
(* the stored rows.                                                        *)
(***************************************************************************)
InitFees ==
    /\ workload = ReportWorkload
    /\ token_deltas_columns \in
          { {"id", "market_token", "transactor", "count"},
            {"id", "market_token", "transactor", "delta"} }
    /\ vendor_checkouts = {}
    /\ token_deltas = {}
    /\ vendor_checkout_tokens = {}
    /\ vendor_checkouts_id_seq = 1
    /\ token_deltas_id_seq = 1
    /\ pc = [c \in Clients |-> "idle"]
    /\ req = [c \in Clients |-> NoRequest]
    /\ tx = [c \in Clients |-> EmptyTx]
    /\ resp = [c \in Clients |-> NoResponse]
    /\ submitted = {}
    /\ nSubmitted = 0
    /\ failed_before = [c \in Clients |-> FALSE]
    /\ report = NoReport
    /\ market_fees \in { {}, {LegacyFee} }
    /\ fee_resp = NoFeeResponse
    /\ fees = NoFees
    /\ first_fees = NoFees
    /\ options = NoOptions

\* Variant of create_fee_for_vendor_type: a request for a pair that has a
\* rule replaces the rule.
create_fee_for_vendor_typeReplacing ==
    /\ \E body \in FeeBodies :
          IF ~ MarketExists(body.market_id)
          THEN /\ fee_resp' = FeeResponse(404, "ForeignKeyViolation", body)
               /\ UNCHANGED market_fees
          ELSE /\ market_fees' =
                     { f \in market_fees :
                         ~ SameFeePair(f, body.market_id, body.vendor_type) }
                     \cup {body}
               /\ fee_resp' = FeeResponse(201, "Fee created successfully", body)
    /\ fees' = NoFees
    /\ UNCHANGED first_fees
    /\ UNCHANGED option_vars
    /\ UNCHANGED << workload, token_deltas_columns, tables,
                    vendor_checkouts_id_seq, token_deltas_id_seq, pc, req,
                    tx, resp, submitted, nSubmitted, failed_before, report >>

\* create_fee_for_vendor_type: one INSERT INTO market_fees in a transaction
create_fee_for_vendor_type ==
    /\ \E body \in FeeBodies :
          IF ~ MarketExists(body.market_id)
          THEN \* ForeignKeyViolation: handle_error raises 404
               /\ fee_resp' = FeeResponse(404, "ForeignKeyViolation", body)
               /\ UNCHANGED market_fees
          ELSE IF \E f \in market_fees :
                     SameFeePair(f, body.market_id, body.vendor_type)
          THEN \* UniqueViolation
               /\ fee_resp' = FeeResponse(400,
                     "A fee for this vendor type in this market already exists",
                     body)
               /\ UNCHANGED market_fees
          ELSE /\ market_fees' = market_fees \cup {body}
               /\ fee_resp' = FeeResponse(201, "Fee created successfully", body)
    /\ fees' = NoFees
    /\ UNCHANGED first_fees
    /\ UNCHANGED option_vars
    /\ UNCHANGED << workload, token_deltas_columns, tables,
                    vendor_checkouts_id_seq, token_deltas_id_seq, pc, req,
                    tx, resp, submitted, nSubmitted, failed_before, report >>

\* market_fees_cte evaluated for one market
ApplyMarketFeesCte ==
    /\ \E m \in {1, 9} : fees' = [market_id |-> m, rows |-> market_fees_cte(m)]
    /\ first_fees' = IF first_fees = NoFees /\ fees'.market_id = 1
                     THEN fees' ELSE first_fees
    /\ UNCHANGED << workload, token_deltas_columns, tables,
                    vendor_checkouts_id_seq, token_deltas_id_seq, pc, req,
                    tx, resp, submitted, nSubmitted, failed_before, report,
                    market_fees, fee_resp >>
    /\ UNCHANGED option_vars

NextFees ==
    \/ create_fee_for_vendor_type
    \/ ApplyMarketFeesCte

SpecFees == InitFees /\ [][NextFees]_vars

(***************************************************************************)
(* The options endpoints applied to ledgers of dated checkouts.            *)
(***************************************************************************)
\* committed checkouts of one market_vendor, one on each date of D, with
\* ids from first on in the order of the dates
DatedCheckouts(mv, D, first) ==
    { [id |-> first + Cardinality({ e \in D : e < d }),
       market_vendor |-> mv, market_date |-> d, gross |-> 50,
       fees_paid |-> 3] : d \in D }

\* The ledgers: Acme in market 1 on at most one date or on all dates but
\* at most two, Bees in market 1 on no date or on the first and the last,
\* Acme in market 2 on no date or on the third.
InitOptions ==
    /\ workload = ReportWorkload
    /\ token_deltas_columns = {"id", "market_token", "transactor", "delta"}
    /\ \E D \in { S \in SUBSET (1..MaxDate) :
                     Cardinality(S) <= 1 \/ Cardinality(S) >= MaxDate - 2 },
          E \in {{}, {1, MaxDate}}, F \in {{}, {3}} :
          /\ vendor_checkouts =
                DatedCheckouts(1, D, 1)
                \cup DatedCheckouts(3, E, 1 + Cardinality(D))
                \cup DatedCheckouts(2, F, 1 + Cardinality(D) + Cardinality(E))
          /\ vendor_checkouts_id_seq =
                1 + Cardinality(D) + Cardinality(E) + Cardinality(F)
    /\ token_deltas = {}
    /\ vendor_checkout_tokens = {}
    /\ token_deltas_id_seq = 1
    /\ pc = [c \in Clients |-> "idle"]
    /\ req = [c \in Clients |-> NoRequest]
    /\ tx = [c \in Clients |-> EmptyTx]
    /\ resp = [c \in Clients |-> NoResponse]
    /\ submitted = {}
    /\ nSubmitted = 0
    /\ failed_before = [c \in Clients |-> FALSE]
    /\ report = NoReport
    /\ market_fees = {}
    /\ fee_resp = NoFeeResponse
    /\ fees = NoFees
    /\ first_fees = NoFees
    /\ options = NoOptions

\* POST /market_manager/{market_manager_id}/checkout
get_checkout_options ==
    /\ \E market_manager_id \in {1, 2, 9}, today_date \in Todays :
          options' = market_options("checkout", market_manager_id, today_date)
    /\ UNCHANGED fee_vars
    /\ UNCHANGED << workload, token_deltas_columns, tables,
                    vendor_checkouts_id_seq, token_deltas_id_seq, pc, req,
                    tx, resp, submitted, nSubmitted, failed_before, report >>

\* get_market_options(market_manager_id) of market_manager.py: the same
\* statements
get_market_options ==
    /\ \E market_manager_id \in {1, 2, 9}, today_date \in Todays :
          options' = market_options("market_manager", market_manager_id,
                                    today_date)
    /\ UNCHANGED fee_vars
    /\ UNCHANGED << workload, token_deltas_columns, tables,
                    vendor_checkouts_id_seq, token_deltas_id_seq, pc, req,
                    tx, resp, submitted, nSubmitted, failed_before, report >>

NextOptions ==
    \/ get_checkout_options
    \/ get_market_options

SpecOptions == InitOptions /\ [][NextOptions]_vars

(***************************************************************************)
(* Properties.                                                             *)
(***************************************************************************)
LinksOf(id) == { l \in vendor_checkout_tokens : l.vendor_checkout = id }

DeltasOf(id) ==
    { td \in token_deltas : \E l \in LinksOf(id) : l.token_delta = td.id }

MarketOfVendor(mv_id) ==
    (CHOOSE mv \in market_vendors : mv.id = mv_id).market_id

Finished(c) == pc[c] = "idle" /\ resp[c].status # 0

Failed(c) == Finished(c) /\ resp[c].status # 200

\* sum of the counts a token list carries for one market token
SubmittedCount(items, mt_id) ==
    LET J == { j \in DOMAIN items : items[j].market_token_id = mt_id }
    IN  SumOver([j \in J |-> items[j].count], J)

\* C1: in every state the committed tables show, for each vendor checkout,
\* one token delta and one link row for every token of its submission, and
\* no token delta or link row without its checkout; a header with only part
\* of its deltas or links is never visible.
C1_AllOrNothing ==
    /\ \A vc \in vendor_checkouts :
          \E s \in submitted :
             /\ s.vendor_checkout = vc.id
             /\ Cardinality(LinksOf(vc.id)) = Len(s.tokens)
             /\ Cardinality(DeltasOf(vc.id)) = Len(s.tokens)
             /\ \A i \in DOMAIN s.tokens :
                   Cardinality({ td \in DeltasOf(vc.id) :
                                   /\ td.market_token = s.tokens[i].market_token_id
                                   /\ td.count = s.tokens[i].count })
                     = Cardinality({ j \in DOMAIN s.tokens :
                                        s.tokens[j] = s.tokens[i] })
    /\ \A l \in vendor_checkout_tokens :
          /\ l.vendor_checkout \in Ids(vendor_checkouts)
          /\ l.token_delta \in Ids(token_deltas)
    /\ \A td \in token_deltas :
          \E l \in vendor_checkout_tokens : l.token_delta = td.id

\* A checkout with two linked deltas is committed while another submission
\* has written its header and its deltas but not yet its links.
C1_Witness ==
    /\ \E vc \in vendor_checkouts : Cardinality(LinksOf(vc.id)) = 2
    /\ \E c \in Clients :
          /\ pc[c] = "insert_vendor_checkout_tokens"
          /\ tx[c].token_deltas # {}

\* a submission carrying an existing market token of a market other than
\* the market of its market_vendor
CrossMarket(r) ==
    /\ MarketVendorExists(r.market_vendor_id)
    /\ \E i \in DOMAIN r.tokens.items :
          \E mt \in market_tokens :
             /\ mt.id = r.tokens.items[i].market_token_id
             /\ mt.market_id # MarketOfVendor(r.market_vendor_id)

\* C2: a submission with a token of another market than the market of its
\* market_vendor fails (ReferentialError) and commits nothing.
C2_CrossMarketRejected ==
    \A c \in Clients :
        (Finished(c) /\ CrossMarket(req[c])) => resp[c].status # 200

\* C3: every token delta linked to a vendor checkout references a market
\* token of the market of that checkout's market_vendor.
C3_LinkedTokensOfCheckoutMarket ==
    \A vc \in vendor_checkouts :
        \A td \in DeltasOf(vc.id) :
            \A mt \in market_tokens :
                mt.id = td.market_token
                    => mt.market_id = MarketOfVendor(vc.market_vendor)

\* C4: at most one vendor checkout exists per (market_vendor, market_date),
\* and the submission that loses the settlement receives a conflict error
\* (409, the status unique_violation_exception maps UniqueViolation to).
C4_OneCheckoutPerSettlement ==
    /\ \A a, b \in vendor_checkouts :
          SameSettlement(a, b.market_vendor, b.market_date) => a = b
    /\ \A c \in Clients :
          (Finished(c) /\ resp[c].exc = "UniqueViolation")
              => resp[c].status = 409

\* what makes the store reject request r in the current state
Rejectable(r) ==
    \/ ~ MarketVendorExists(r.market_vendor_id)
    \/ \E vc \in vendor_checkouts :
          SameSettlement(vc, r.market_vendor_id, r.market_date)
    \/ /\ ~ r.tokens.is_none
       /\ \/ r.tokens.items = << >>
          \/ ~ (InsertedColumns \subseteq token_deltas_columns)
          \/ \E i \in DOMAIN r.tokens.items :
                ~ MarketTokenExists(r.tokens.items[i].market_token_id)

C5_FailureStep ==
    \A c \in Clients :
        (pc[c] # "idle" /\ pc'[c] = "idle" /\ resp'[c].status # 200)
            => UNCHANGED tables

C5_FailureExplained ==
    \A c \in Clients : Failed(c) => Rejectable(req[c])

\* C5: the step in which a submission fails, at whatever statement, leaves
\* the three tables as they were; and a submission fails only for a reason
\* in its own request or a committed settlement of the same pair, so that a
\* valid submission received after a failure still succeeds.
C5_FailedSubmissionChangesNothing ==
    [][C5_FailureStep]_vars /\ []C5_FailureExplained

\* A submission received after another one had failed has been committed.
C5_Witness ==
    \E c \in Clients :
        /\ failed_before[c]
        /\ Finished(c)
        /\ resp[c].status = 200
        /\ \E o \in Clients \ {c} : Failed(o)

\* C6: no step removes or changes a committed vendor checkout, token delta
\* or link row: each table only grows.
C6_LedgerOnlyGrows ==
    [][ /\ vendor_checkouts \subseteq vendor_checkouts'
        /\ token_deltas \subseteq token_deltas'
        /\ vendor_checkout_tokens \subseteq vendor_checkout_tokens' ]_vars

\* Two checkouts are committed, one with linked deltas, and a report has
\* just been served on them.
C6_Witness ==
    /\ Cardinality(vendor_checkouts) = 2
    /\ vendor_checkout_tokens # {}
    /\ report.status # 0

\* C7: the error kinds reach the caller with different statuses: two failed
\* submissions with different causes have different statuses, and a
\* reference to an unknown vendor or token is answered with a client error.
C7_DistinctErrorStatuses ==
    /\ \A a, b \in Clients :
          (Failed(a) /\ Failed(b) /\ resp[a].exc # resp[b].exc)
              => resp[a].status # resp[b].status
    /\ \A c \in Clients :
          (Failed(c) /\ resp[c].exc = "ForeignKeyViolation")
              => resp[c].status \in 400..499

\* C8: a submission with a negative reported_gross is rejected with a
\* validation error, and no committed vendor checkout has a negative gross.
C8_NegativeGrossRejected ==
    /\ \A c \in Clients :
          (Finished(c) /\ req[c].reported_gross < 0)
              => resp[c].status \in {400, 422}
    /\ \A vc \in vendor_checkouts : vc.gross >= 0

\* the checkouts a report query selects
SelectedCheckouts(q) ==
    { vc \in vendor_checkouts :
        \E mv \in market_vendors, m \in markets :
           /\ mv.id = vc.market_vendor
           /\ m.id = mv.market_id
           /\ Selected(q, vc, mv, m) }

\* the business_name of the vendor behind a checkout
BusinessNameOf(vc) ==
    LET mv == CHOOSE mv \in market_vendors : mv.id = vc.market_vendor
    IN  (CHOOSE v \in vendors : v.id = mv.vendor_id).business_name

\* C9: a report served after a checkout was submitted with token entries,
\* and whose filters select that checkout, succeeds and shows in the row of
\* the checkout, for each token of the checkout's market, the sum of the
\* counts submitted for that token.
C9_RoundTrip ==
    report.status # 0 =>
        \A s \in submitted :
            \A vc \in SelectedCheckouts(report.query) :
                (s.vendor_checkout = vc.id /\ s.tokens # << >>) =>
                    /\ report.status = 200
                    /\ \E i \in DOMAIN report.reports :
                          LET row == report.reports[i]
                          IN  /\ row.business_name = BusinessNameOf(vc)
                              /\ row.gross = vc.gross
                              /\ row.fees_paid = vc.fees_paid
                              /\ row.market_date = vc.market_date
                              /\ \A mt \in market_tokens :
                                    mt.market_id = MarketOfVendor(vc.market_vendor)
                                       => \E o \in DOMAIN row.tokens :
                                             /\ o.type = mt.token_type
                                             /\ o.count =
                                                  SubmittedCount(s.tokens, mt.id)

\* C10: the fees_paid of the totals block is the sum of fees_paid over the
\* checkouts the query selects, each counted once.
C10_TotalFeesPaid ==
    report.status = 200 =>
        report.totals.fees_paid =
            SumOver([vc \in SelectedCheckouts(report.query) |-> vc.fees_paid],
                    SelectedCheckouts(report.query))

\* the market tokens configured for the market of checkout vc
TokensOfCheckout(vc) ==
    { mt \in market_tokens : mt.market_id = MarketOfVendor(vc.market_vendor) }

\* net delta of checkout vc for market token mt: the sum of the deltas
\* linked to vc that name mt
NetDelta(vc, mt) ==
    LET D == { td \in DeltasOf(vc.id) : td.market_token = mt.id }
    IN  SumOver([td \in D |-> td.delta], D)

\* the (checkout, market token) pairs of the checkouts query q selects
SelectedPairs(q) ==
    { p \in SelectedCheckouts(q) \X market_tokens : p[2] \in TokensOfCheckout(p[1]) }

\* C11 as stated: the totals block of a report has exactly one entry for
\* each token type configured for a market of a selected checkout, no
\* entry of another type, and the count of the entry is the sum of the net
\* deltas of that type over the selected checkouts.
C11_OneEntryPerTokenType ==
    report.status = 200 =>
        LET P == SelectedPairs(report.query)
            of(t) == { p \in P : p[2].token_type = t }
        IN  /\ \A o \in report.totals.tokens : of(o.type) # {}
            /\ \A t \in { p[2].token_type : p \in P } :
                  /\ Cardinality({ o \in report.totals.tokens : o.type = t }) = 1
                  /\ \A o \in report.totals.tokens :
                        o.type = t =>
                           o.count = SumOver([p \in of(t) |-> NetDelta(p[1], p[2])],
                                             of(t))

\* C11 amended: the totals block of a report has exactly one entry for each
\* (token type, per-dollar value) pair configured for a market of a selected
\* checkout, no other entry, and the count of the entry is the sum of the
\* net deltas of the market tokens of that pair over the selected checkouts.
C11_OneEntryPerTypeAndValue ==
    report.status = 200 =>
        LET P == SelectedPairs(report.query)
            of(t, v) == { p \in P : p[2].token_type = t
                                    /\ p[2].per_dollar_value = v }
        IN  /\ \A o \in report.totals.tokens : of(o.type, o.per_dollar_value) # {}
            /\ \A k \in { << p[2].token_type, p[2].per_dollar_value >> : p \in P } :
                  /\ Cardinality({ o \in report.totals.tokens :
                                     o.type = k[1] /\ o.per_dollar_value = k[2] }) = 1
                  /\ \A o \in report.totals.tokens :
                        (o.type = k[1] /\ o.per_dollar_value = k[2]) =>
                           o.count = SumOver([p \in of(k[1], k[2]) |->
                                                 NetDelta(p[1], p[2])],
                                             of(k[1], k[2]))

\* a report whose totals carry two entries of one type with non-zero counts
C11_Witness ==
    /\ report.status = 200
    /\ \E o1, o2 \in report.totals.tokens :
          /\ o1.type = o2.type
          /\ o1.per_dollar_value # o2.per_dollar_value
          /\ o1.count > 0
          /\ o2.count > 0

\* row of a report shows checkout vc: the columns the rows are grouped by
RowOf(row, vc) ==
    /\ row.business_name = BusinessNameOf(vc)
    /\ row.gross = vc.gross
    /\ row.fees_paid = vc.fees_paid
    /\ row.market_date = vc.market_date

\* the token list the row of checkout vc is to carry: one object per
\* market token of the checkout's market, as a bag
TokenListOf(vc) ==
    LET obj(mt) == TokenObject(mt.token_type, NetDelta(vc, mt),
                               mt.per_dollar_value)
    IN  [o \in { obj(mt) : mt \in TokensOfCheckout(vc) } |->
            Cardinality({ mt \in TokensOfCheckout(vc) : obj(mt) = o })]

\* C12: in a report, the token list of the row of a checkout has one entry
\* for every market token configured for the checkout's market and no
\* other; the entry carries the token's type and per-dollar value and the
\* checkout's net delta for the token, 0 when no delta is linked.
C12_RowTokenList ==
    report.status = 200 =>
        \A vc \in SelectedCheckouts(report.query) :
            \A i \in DOMAIN report.reports :
                RowOf(report.reports[i], vc)
                    => report.reports[i].tokens = TokenListOf(vc)

\* the manager of the market a checkout was made in
ManagerOfCheckout(vc) ==
    (CHOOSE m \in markets : m.id = MarketOfVendor(vc.market_vendor)).manager_id

\* the checkouts a report for query q may contain
Admitted(q) ==
    { vc \in vendor_checkouts :
        /\ ManagerOfCheckout(vc) = q.market_manager_id
        /\ q.market_id # AllMarkets
              => MarketOfVendor(vc.market_vendor) = q.market_id
        /\ q.market_date # NoDate => vc.market_date = q.market_date }

\* checkout vc has a row in the report
Reported(vc) == \E i \in DOMAIN report.reports : RowOf(report.reports[i], vc)

\* C13: every row of a report is the row of a checkout made in a market of
\* the manager asked for, in the market of the market_id filter and on the
\* date of the market_date filter when these are supplied; every entry of
\* the totals block sums the net deltas of such checkouts only; and a
\* checkout that the report with the market (date) filter set to its own
\* market (date) shows is shown by the report that omits the filter.
C13_ReportFilters ==
    report.status = 200 =>
        LET q == report.query
            P == { p \in Admitted(q) \X market_tokens :
                     p[2] \in TokensOfCheckout(p[1]) }
            of(o) == { p \in P : /\ p[2].token_type = o.type
                                 /\ p[2].per_dollar_value = o.per_dollar_value }
        IN  /\ \A i \in DOMAIN report.reports :
                  \E vc \in Admitted(q) : RowOf(report.reports[i], vc)
            /\ \A o \in report.totals.tokens :
                  /\ of(o) # {}
                  /\ o.count = SumOver([p \in of(o) |-> NetDelta(p[1], p[2])],
                                       of(o))
            /\ q.market_id = AllMarkets =>
                  \A vc \in vendor_checkouts :
                      (\E r \in final_data([q EXCEPT !.market_id =
                                  MarketOfVendor(vc.market_vendor)]) : RowOf(r, vc))
                          => Reported(vc)
            /\ q.market_date = NoDate =>
                  \A vc \in vendor_checkouts :
                      (\E r \in final_data([q EXCEPT !.market_date =
                                  vc.market_date]) : RowOf(r, vc))
                          => Reported(vc)

\* a report filtered by market and date that shows a checkout while the
\* ledger holds checkouts of another manager, another market and another
\* date, each with token deltas or tokens configured
C13_Witness ==
    /\ report.status = 200
    /\ report.query.market_manager_id = 1
    /\ report.query.market_id = 1
    /\ report.query.market_date = 1
    /\ Len(report.reports) > 0
    /\ \E a, b, c \in vendor_checkouts :
          /\ ManagerOfCheckout(a) = 2 /\ TokensOfCheckout(a) # {}
          /\ ManagerOfCheckout(b) = 1 /\ MarketOfVendor(b.market_vendor) = 2
          /\ ManagerOfCheckout(c) = 1 /\ c.market_date = 2

\* the value of the selected sort key in a row of a report
KeyOfRow(row, sort_by) ==
    IF sort_by = "MARKET_DATE" THEN row.market_date
    ELSE IF sort_by = "BUSINESS_NAME" THEN Collation(row.business_name)
    ELSE IF sort_by = "GROSS" THEN row.gross
    ELSE row.fees_paid

\* C14: of every two adjacent rows of a report, the first has the smaller
\* or equal value of the selected sort key when the direction is ascending
\* and the greater or equal value when it is descending.
C14_RowsSorted ==
    report.status = 200 =>
        \A i \in DOMAIN report.reports :
            i + 1 \in DOMAIN report.reports =>
                LET k1 == KeyOfRow(report.reports[i], report.query.sort_by)
                    k2 == KeyOfRow(report.reports[i + 1], report.query.sort_by)
                IN  IF report.query.sort_direction = "ASC"
                    THEN k1 <= k2
                    ELSE k1 >= k2

\* checkouts inserted with gross 50, 200, 75 reported by gross descending
C14_Witness ==
    /\ report.status = 200
    /\ report.query.sort_by = "GROSS"
    /\ report.query.sort_direction = "DESC"
    /\ \E a, b, c \in vendor_checkouts :
          /\ a.id < b.id /\ b.id < c.id
          /\ a.gross = 50 /\ b.gross = 200 /\ c.gross = 75
    /\ [i \in DOMAIN report.reports |-> report.reports[i].gross]
          = << 200, 75, 50 >>

\* the earliest inserted selected checkout a row of the report shows
FirstCheckoutOf(row) ==
    LET ids == { vc.id : vc \in { c \in SelectedCheckouts(report.query) :
                                    RowOf(row, c) } }
    IN  CHOOSE x \in ids : \A y \in ids : x <= y

\* C15: two rows of a report with equal values of the selected sort key
\* appear in the order in which their checkouts were inserted, in both
\* directions.
C15_TiesInInsertionOrder ==
    report.status = 200 =>
        \A i, j \in DOMAIN report.reports :
            (/\ i < j
             /\ KeyOfRow(report.reports[i], report.query.sort_by)
                  = KeyOfRow(report.reports[j], report.query.sort_by))
                => FirstCheckoutOf(report.reports[i])
                      < FirstCheckoutOf(report.reports[j])

Rate2Or0(fee) == IF fee.rate_2 = Absent THEN 0 ELSE fee.rate_2.value

\* the (flat, percent) pair the table of fee types gives for a rule
FeeTable(fee) ==
    IF fee.fee_type = "FLAT_FEE" THEN << fee.rate, Rate2Or0(fee) >>
    ELSE IF fee.fee_type = "PERCENT_GROSS" THEN << Rate2Or0(fee), fee.rate >>
    ELSE IF fee.fee_type = "FLAT_PERCENT_COMBO" THEN << fee.rate, Rate2Or0(fee) >>
    ELSE IF fee.fee_type = "MAX_OF_EITHER" THEN << fee.rate, Rate2Or0(fee) >>
    ELSE IF fee.fee_type = "GOV_FEE" THEN << fee.rate, 0 >>
    ELSE << 0, 0 >>

\* the rules of the market the rows in fees were computed for
FeesAsked == { f \in market_fees : f.market_id = fees.market_id }

\* the row of fees computed for rule fee
FeeRowOf(fee) ==
    { r \in fees.rows : r.vendor_type = fee.vendor_type
                        /\ r.fee_type = fee.fee_type }

\* C17: the rows market_fees_cte gives for a market are one per rule of the
\* market, and the row of a rule carries the flat and percent values the
\* table gives for the rule's fee type, rate and rate_2.
C17_FeeDecomposition ==
    fees # NoFees =>
        /\ Cardinality(fees.rows) = Cardinality(FeesAsked)
        /\ \A fee \in FeesAsked :
              \E r \in FeeRowOf(fee) :
                  << r.flat, r.percent >> = FeeTable(fee)

\* rows computed for a GOV_FEE rule that has a rate_2 and for a rule of an
\* unrecognized fee type, together with a PERCENT_GROSS rule without rate_2
C17_Witness ==
    /\ \E fee \in FeesAsked :
          /\ fee.fee_type = "GOV_FEE" /\ fee.rate_2 # Absent
          /\ \E r \in FeeRowOf(fee) : r.flat = fee.rate /\ r.percent = 0
    /\ \E fee \in FeesAsked :
          /\ fee.fee_type \notin FeeTypes
          /\ \E r \in FeeRowOf(fee) : r.flat = 0 /\ r.percent = 0
    /\ \E fee \in FeesAsked :
          /\ fee.fee_type = "PERCENT_GROSS" /\ fee.rate_2 = Absent
          /\ \E r \in FeeRowOf(fee) : r.flat = 0 /\ r.percent = fee.rate

C20_TotalNeverNegative ==
    fee_resp.status = 201 =>
        \A fee \in market_fees :
            SameFeePair(fee, fee_resp.market_id, fee_resp.vendor_type) =>
                \A r \in market_fees_cte(fee.market_id), g \in FeeGrosses :
                    (r.vendor_type = fee.vendor_type /\ g >= 0)
                        => TotalOwed(r, g) >= 0

ValidSubmission(r) ==
    /\ MarketVendorExists(r.market_vendor_id)
    /\ r.reported_gross >= 0
    /\ \A i \in DOMAIN r.tokens.items :
          \E mt \in market_tokens :
             /\ mt.id = r.tokens.items[i].market_token_id
             /\ mt.market_id = MarketOfVendor(r.market_vendor_id)

\* the ledger holds the checkout of request r with exactly the deltas of
\* r's tokens, linked to no other checkout
CommittedAlone(r) ==
    \E vc \in vendor_checkouts :
        /\ vc.market_vendor = r.market_vendor_id
        /\ vc.market_date = r.market_date
        /\ vc.gross = r.reported_gross
        /\ vc.fees_paid = r.fees_paid
        /\ Cardinality(LinksOf(vc.id)) = Len(r.tokens.items)
        /\ Cardinality(DeltasOf(vc.id)) = Len(r.tokens.items)
        /\ \A mt \in market_tokens :
              LET D == { td \in DeltasOf(vc.id) : td.market_token = mt.id }
              IN  SumOver([td \in D |-> td.count], D)
                     = SubmittedCount(r.tokens.items, mt.id)
        /\ \A l \in LinksOf(vc.id) :
              \A o \in vendor_checkout_tokens :
                  o.token_delta = l.token_delta => o.vendor_checkout = vc.id

\* C22: when two clients have each had one valid submission served, for
\* different (market_vendor, market_date) pairs, in whatever order their
\* steps were taken, both were answered 200 and the ledger is the two
\* checkouts, each with exactly its own deltas.
C22_ConcurrentSubmissionsCommit ==
    \A c1, c2 \in Clients :
        (/\ c1 # c2
         /\ Finished(c1) /\ Finished(c2)
         /\ ValidSubmission(req[c1]) /\ ValidSubmission(req[c2])
         /\ ~ SameSettlement([market_vendor |-> req[c1].market_vendor_id,
                              market_date |-> req[c1].market_date],
                             req[c2].market_vendor_id, req[c2].market_date))
            => /\ resp[c1].status = 200
               /\ resp[c2].status = 200
               /\ Cardinality(vendor_checkouts) = Cardinality(Clients)
               /\ CommittedAlone(req[c1])
               /\ CommittedAlone(req[c2])


\* C23: after every step there is at most one fee rule per (market, vendor
\* type) pair, and a create_fee_for_vendor_type request for a pair that has
\* a rule is answered 400 and leaves market_fees as it was.
C23_OneFeePerPair ==
    [][ /\ \A f, g \in market_fees' :
              SameFeePair(f, g.market_id, g.vendor_type) => f = g
        /\ (/\ fee_resp' # fee_resp
            /\ \E f \in market_fees :
                  SameFeePair(f, fee_resp'.market_id, fee_resp'.vendor_type))
              => /\ fee_resp'.status = 400
                 /\ market_fees' = market_fees ]_vars

C23_Witness ==
    /\ fee_resp.status = 400
    /\ \E f \in market_fees :
          /\ SameFeePair(f, fee_resp.market_id, fee_resp.vendor_type)
          /\ f.fee_type = "MAX_OF_EITHER"
    /\ fees = NoFees
    /\ Cardinality(market_fees) >= 2


\* C24: a step that serves a report leaves the vendor checkout, token delta,
\* link and fee rule tables as they were (market_tokens never changes), and
\* leaves every open submission's pending writes, position and request as
\* they were.
C24_ReportChangesNothing ==
    [][ report' # NoReport =>
            /\ vendor_checkouts' = vendor_checkouts
            /\ token_deltas' = token_deltas
            /\ vendor_checkout_tokens' = vendor_checkout_tokens
            /\ market_fees' = market_fees
            /\ tx' = tx
            /\ pc' = pc
            /\ req' = req ]_vars

C24_Witness ==
    /\ report # NoReport
    /\ vendor_checkouts # {}
    /\ vendor_checkout_tokens # {}
    /\ \E c \in Clients : pc[c] # "idle" /\ tx[c] # EmptyTx


\* C25: a served submission of a known market_vendor that carries no token,
\* with tokens omitted or with tokens the empty list, and that was not
\* turned down as a second settlement of its pair, was answered 200 and its
\* checkout is committed with no link row and no token delta.
C25_EmptyTokensCommit ==
    \A c \in Clients :
        (/\ Finished(c)
         /\ MarketVendorExists(req[c].market_vendor_id)
         /\ req[c].reported_gross >= 0
         /\ req[c].tokens.items = << >>
         /\ resp[c].exc # "UniqueViolation")
            => /\ resp[c].status = 200
               /\ \E vc \in vendor_checkouts :
                     /\ SameSettlement(vc, req[c].market_vendor_id,
                                       req[c].market_date)
                     /\ LinksOf(vc.id) = {}
                     /\ DeltasOf(vc.id) = {}


\* C26: in a report, two distinct checkouts that pass the filters and are
\* shown have two distinct rows, one for each: no row stands for both.
C26_OneRowPerCheckout ==
    report.status = 200 =>
        \A vc1, vc2 \in Admitted(report.query) :
            (vc1 # vc2 /\ Reported(vc1) /\ Reported(vc2)) =>
                \E i, j \in DOMAIN report.reports :
                    /\ i # j
                    /\ RowOf(report.reports[i], vc1)
                    /\ RowOf(report.reports[j], vc2)

\* C27: a report shows every checkout that passes its filters, also one
\* made in a market with no market token, whose row has an empty token
\* list; and the fees_paid of the totals block counts that checkout's
\* fees_paid, so is no less than it.
C27_TokenlessMarketReported ==
    report.status = 200 =>
        \A vc \in Admitted(report.query) :
            TokensOfCheckout(vc) = {} =>
                /\ \E i \in DOMAIN report.reports :
                      /\ RowOf(report.reports[i], vc)
                      /\ report.reports[i].tokens = TokenListOf(vc)
                /\ report.totals.fees_paid >= vc.fees_paid


\* C28: in every state each committed token delta is linked to exactly one
\* vendor checkout, which is committed, and has transactor Vendor; and each
\* committed checkout has as many linked deltas as the tokens list of the
\* submission that created it has entries, entries that repeat a
\* market_token_id included.
C28_DeltasLinkedOnce ==
    /\ \A td \in token_deltas :
          /\ Cardinality({ l.vendor_checkout :
                             l \in { k \in vendor_checkout_tokens :
                                       k.token_delta = td.id } }) = 1
          /\ \A l \in vendor_checkout_tokens :
                l.token_delta = td.id =>
                    l.vendor_checkout \in Ids(vendor_checkouts)
          /\ td.transactor = TransactorVendor
    /\ \A vc \in vendor_checkouts :
          \E s \in submitted :
             /\ s.vendor_checkout = vc.id
             /\ Cardinality(DeltasOf(vc.id)) = Len(s.tokens)

C28_Witness ==
    /\ Cardinality(vendor_checkouts) = 2
    /\ \E vc \in vendor_checkouts :
          \E d1, d2 \in DeltasOf(vc.id) :
             d1 # d2 /\ d1.market_token = d2.market_token
    /\ \A vc \in vendor_checkouts : DeltasOf(vc.id) # {}


\* the market_dates list of market id in the last options response
DatesListed(id) ==
    LET I == { i \in DOMAIN options.markets : options.markets[i].market_id = id }
    IN  IF I = {} THEN << >>
        ELSE options.markets[CHOOSE i \in I : TRUE].market_dates

\* C29: in an options response, the dates listed for a market that are not
\* today are the latest RankLimit of the distinct dates the market has a
\* checkout on: every date among the RankLimit latest of the market, other
\* than today, is listed, and no older date is.
C29_LatestDatesListed ==
    options.status = 200 =>
        \A i \in DOMAIN options.markets :
            LET id == options.markets[i].market_id
                latest == { d \in CheckoutDates(id) :
                              Cardinality({ e \in CheckoutDates(id) : e > d })
                                 < RankLimit }
                listed == options.markets[i].market_dates
            IN  /\ \A d \in latest \ {options.today} :
                      \E j \in DOMAIN listed : listed[j] = isoformat(d)
                /\ \A j \in DOMAIN listed :
                      listed[j] # isoformat(options.today) =>
                          \E d \in latest : listed[j] = isoformat(d)


\* C30: in an options response no date is listed twice for a market, and
\* for a market with checkouts on no more than RankLimit dates every date
\* with a checkout is listed, today's date included, whatever the market's
\* days of operation.
C30_EveryDateListedOnce ==
    options.status = 200 =>
        \A i \in DOMAIN options.markets :
            LET id == options.markets[i].market_id
                listed == options.markets[i].market_dates
            IN  /\ \A j, k \in DOMAIN listed : listed[j] = listed[k] => j = k
                /\ Cardinality(CheckoutDates(id)) <= RankLimit =>
                      \A d \in CheckoutDates(id) :
                          \E j \in DOMAIN listed : listed[j] = isoformat(d)

====
